---------------------------- MODULE Spec2Model ----------------------------
(***************************************************************************)
(* A model of the two Twitch scrapers: categories_scraper.py (the category *)
(* pass) and streamers_scraper.py (the stream pass).                        *)
(*                                                                         *)
(* Text is modelled as a sequence of one-character strings, so that the    *)
(* string operations of convert_viewers_count (replace, strip, in,         *)
(* isdigit, float, int) are computed character by character.               *)
(*                                                                         *)
(* Several specifications share the variables:                             *)
(*   SpecScroll  the scroll loop of the category pass, on any count reads  *)
(*               (SpecScrollFair: the same, the loop going on until left)   *)
(*   SpecCsv     any sequence of save_to_csv calls on a file               *)
(*   SpecCat     runs of the category pass                                 *)
(*   SpecZip     stream-mode extraction of one category page               *)
(*   SpecStream  runs of the stream pass                                   *)
(*   SpecItem    extraction of one item of the directory page              *)
(*   SpecConvert convert_viewers_count on one text                         *)
(*   SpecRuns    runs of the two passes, one after the other               *)
(***************************************************************************)
EXTENDS Integers, Sequences, FiniteSets, TLC

VARIABLES
    \* ---- scroll_to_load_more (categories_scraper.py) ----
    last_category_count,  \* local of scroll_to_load_more
    scroll_attempts,      \* local of scroll_to_load_more
    scrollPc,             \* "idle" | "loop" | "done"
    nReads,               \* number of counts read so far (history)
    scrollSteps,          \* number of window.scrollBy calls issued (history)
    prevRead,             \* the count read last, -1 before the first (history)
    firstRead,            \* "none" | "zero" | "positive": the first count read
    increasing,           \* every read so far exceeded the read before it
    constant,             \* every read so far equalled the read before it
    sawNoNew,             \* a read so far equalled the count before it (0 at first)
    \* ---- the files ----
    fs,                   \* path -> the file: whether it exists, and its rows
    calls,                \* the save_to_csv calls made, in order (history)
    \* ---- a pass (either scraper) ----
    pc,                   \* position of the running script
    driver,               \* "none" | "open" | "closed"
    clock,                \* number of the run: the timestamp its records carry
    raised,               \* TRUE when an exception left the script uncaught
    nItems,               \* len(category_elements), line 98
    page,                 \* the items the per-item loop has probed so far (history)
    categories_data,      \* local of scrape_twitch_categories
    fsAtStart,            \* fs when the current run started (history)
    \* ---- stream pass ----
    categories,           \* the catalog read from last_categories.csv
    catIdx,               \* index of the next category of the per-category loop
    all_last_streams,     \* the aggregate
    visited,              \* categories whose scrape was started (history)
    outcomes,             \* what each visited category's page did (history)
    \* ---- stream-mode extraction of one page ----
    handles,              \* the four handle lists of the page: the text of each handle
    data,                 \* whether the extraction has returned, and its records
    \* ---- convert_viewers_count on one text ----
    viewers_text,         \* the argument of convert_viewers_count
    converted             \* whether the call has ended, and how

scrollVars == <<last_category_count, scroll_attempts, scrollPc, nReads, scrollSteps,
                prevRead, firstRead, increasing, constant, sawNoNew>>
fileVars   == <<fs, calls>>
passVars   == <<pc, driver, clock, raised, nItems, page, categories_data, fsAtStart>>
streamVars == <<categories, catIdx, all_last_streams, visited, outcomes>>
zipVars    == <<handles, data>>
convVars   == <<viewers_text, converted>>
vars == <<scrollVars, fileVars, passVars, streamVars, zipVars, convVars>>

----------------------------------------------------------------------------
(* Bounds of the model *)

\* the largest item count the page reports to the scroll loop
MaxCount == 42
\* the largest number of save_to_csv calls of SpecCsv
MaxCalls == 3
\* the largest number of records of one save_to_csv call of SpecCsv
MaxRows == 2
\* the largest number of item handles of the directory page
MaxItems == 2
\* the largest number of runs of a pass
MaxRuns == 2
\* the largest length of a handle list of a category page
MaxHandles == 6
\* the largest number of rows of the category snapshot the stream pass reads
MaxCatalog == 2
\* the largest number of characters of a viewers text, its unit apart
MaxText == 3
\* the largest number of tag spans of an item
MaxTags == 2

----------------------------------------------------------------------------
(* Sequences and text *)

Min(a, b) == IF a <= b THEN a ELSE b

Range(s) == {s[i] : i \in 1..Len(s)}

SeqsUpTo(S, n) == UNION {[1..k -> S] : k \in 0..n}

Digits == {"0", "1", "2", "3", "4", "5", "6", "7", "8", "9"}

DigitVal(c) ==
    CASE c = "0" -> 0 [] c = "1" -> 1 [] c = "2" -> 2 [] c = "3" -> 3
      [] c = "4" -> 4 [] c = "5" -> 5 [] c = "6" -> 6 [] c = "7" -> 7
      [] c = "8" -> 8 [] c = "9" -> 9

\* the value of a string of decimal digits
RECURSIVE DigitsVal(_)
DigitsVal(s) ==
    IF s = <<>> THEN 0
    ELSE 10 * DigitsVal(SubSeq(s, 1, Len(s) - 1)) + DigitVal(s[Len(s)])

IsPrefix(p, s) == Len(p) <= Len(s) /\ SubSeq(s, 1, Len(p)) = p

\* str.replace(pat, ""): the non-overlapping occurrences, left to right
RECURSIVE RemoveAll(_, _)
RemoveAll(s, pat) ==
    IF s = <<>> THEN <<>>
    ELSE IF IsPrefix(pat, s)
         THEN RemoveAll(SubSeq(s, Len(pat) + 1, Len(s)), pat)
         ELSE <<Head(s)>> \o RemoveAll(Tail(s), pat)

RECURSIVE LStrip(_)
LStrip(s) == IF s # <<>> /\ Head(s) = " " THEN LStrip(Tail(s)) ELSE s

RECURSIVE RStrip(_)
RStrip(s) ==
    IF s # <<>> /\ s[Len(s)] = " " THEN RStrip(SubSeq(s, 1, Len(s) - 1)) ELSE s

\* str.strip()
Strip(s) == RStrip(LStrip(s))

\* c in s
Contains(s, c) == \E i \in 1..Len(s) : s[i] = c

\* str.isdigit(), on the characters of the model
IsDigit(s) == s # <<>> /\ \A i \in 1..Len(s) : s[i] \in Digits

AllDigits(s) == \A i \in 1..Len(s) : s[i] \in Digits


----------------------------------------------------------------------------
(* convert_viewers_count: categories_scraper.py 33-43, streamers_scraper.py *)
(* 59-66 (the two definitions are the same).  A result is either a value   *)
(* or the ValueError that float() or int() raises.                          *)

Value(n) == [raises |-> FALSE, value |-> n]
ValueError == [raises |-> TRUE, value |-> 0]

\* position of the first "." of s, 0 when there is none
RECURSIVE DotAt(_, _)
DotAt(s, i) ==
    IF i > Len(s) THEN 0 ELSE IF s[i] = "." THEN i ELSE DotAt(s, i + 1)

\* the first three digits of a fraction, as thousandths
Thousandths(fp) ==
    LET d(i) == IF i <= Len(fp) THEN DigitVal(fp[i]) ELSE 0
    IN  100 * d(1) + 10 * d(2) + d(3)

\* int(float(u) * 1000) for an unsigned literal u: digits, with at most one
\* "." and at least one digit.  The product is computed in decimal, which is
\* what the binary product truncates to for the texts drawn by the model
\* (the item and handle texts, and the texts of SpecConvert: up to four of
\* the characters of TextChars); it is not for every text: the binary
\* product of "32.3" truncates to 32299.
UnsignedMilli(u) ==
    LET k  == DotAt(u, 1)
        ip == IF k = 0 THEN u ELSE SubSeq(u, 1, k - 1)
        fp == IF k = 0 THEN <<>> ELSE SubSeq(u, k + 1, Len(u))
    IN  IF AllDigits(ip) /\ AllDigits(fp) /\ Len(ip) + Len(fp) > 0
        THEN Value(1000 * DigitsVal(ip) + Thousandths(fp))
        ELSE ValueError

\* int(float(s) * 1000): float() strips white space and takes one sign
FloatTimes1000(s) ==
    LET t == Strip(s)
        signed == t # <<>> /\ Head(t) \in {"+", "-"}
        u == IF signed THEN Tail(t) ELSE t
        m == UnsignedMilli(u)
    IN  IF m.raises THEN ValueError
        ELSE IF signed /\ Head(t) = "-" THEN Value(0 - m.value) ELSE m

Suffix == <<" ", "v", "i", "e", "w", "e", "r", "s">>

\* line 35
CleanViewersTextKeepingCommas(text) == Strip(RemoveAll(text, Suffix))
CleanViewersText(text) ==
    Strip(RemoveAll(RemoveAll(text, Suffix), <<",">>))

convert_viewers_count(text) ==
    LET t == CleanViewersText(text)
    IN  IF Contains(t, "K") THEN FloatTimes1000(RemoveAll(t, <<"K">>))
        ELSE IF Contains(t, ".") THEN FloatTimes1000(t)
        ELSE IF IsDigit(t) THEN Value(DigitsVal(t))
        ELSE Value(0)

\* the characters of the texts convert_viewers_count is called on: digits,
\* the thousands marker, the point, the signs, the separator, the blank and
\* a letter
TextChars == {"0", "1", "7", "K", ".", "-", "+", ",", " ", "a"}

NotConverted == [ended |-> FALSE, raises |-> FALSE, value |-> 0]

ConvIdle == viewers_text = <<>> /\ converted = NotConverted

\* one call of convert_viewers_count, lines 33-43: it returns a value or
\* raises the ValueError of float()
ConvertCall ==
    /\ ~converted.ended
    /\ converted' = [ended |-> TRUE,
                     raises |-> convert_viewers_count(viewers_text).raises,
                     value |-> convert_viewers_count(viewers_text).value]
    /\ UNCHANGED <<viewers_text, scrollVars, fileVars, passVars, streamVars, zipVars>>

----------------------------------------------------------------------------
(* scroll_to_load_more of the category pass: categories_scraper.py 56-82   *)

max_scroll_attempts == 40

\* the while condition, line 62
WithinBudgetOffByOne(attempts) == attempts <= max_scroll_attempts
WithinBudget(attempts) == attempts < max_scroll_attempts

\* the break condition, line 70
ConvergedOnDecrease(current, last) == current <= last
Converged(current, last) == current = last

\* line 78
NextLastCountKept(current, last) == last
NextLastCount(current, last) == current

ScrollIdle ==
    /\ last_category_count = 0 /\ scroll_attempts = 0 /\ scrollPc = "idle"
    /\ nReads = 0 /\ scrollSteps = 0 /\ prevRead = -1 /\ firstRead = "none"
    /\ increasing = TRUE /\ constant = TRUE /\ sawNoNew = FALSE

\* lines 58-60: the locals on entry
ScrollEntry ==
    /\ last_category_count = 0 /\ scroll_attempts = 0 /\ scrollPc = "loop"
    /\ nReads = 0 /\ scrollSteps = 0 /\ prevRead = -1 /\ firstRead = "none"
    /\ increasing = TRUE /\ constant = TRUE /\ sawNoNew = FALSE

\* what the reads have been like, kept for the claims
NoteRead(current) ==
    /\ nReads' = nReads + 1
    /\ prevRead' = current
    /\ firstRead' = IF nReads > 0 THEN firstRead
                    ELSE IF current = 0 THEN "zero" ELSE "positive"
    /\ increasing' = (increasing /\ (nReads = 0 \/ current > prevRead))
    /\ constant' = (constant /\ (nReads = 0 \/ current = prevRead))
    /\ sawNoNew' = (sawNoNew \/ current = (IF nReads = 0 THEN 0 ELSE prevRead))

\* one iteration of the loop, lines 62-80: the count is read, and either the
\* loop breaks or the page is scrolled
ScrollIteration ==
    /\ scrollPc = "loop"
    /\ WithinBudget(scroll_attempts)
    /\ \E current_category_count \in 0..MaxCount :
         /\ NoteRead(current_category_count)
         /\ IF Converged(current_category_count, last_category_count)
            THEN /\ scrollPc' = "done"
                 /\ UNCHANGED <<last_category_count, scroll_attempts, scrollSteps>>
            ELSE /\ scrollSteps' = scrollSteps + 1
                 /\ last_category_count' =
                        NextLastCount(current_category_count, last_category_count)
                 /\ scroll_attempts' = scroll_attempts + 1
                 /\ scrollPc' = "loop"
    /\ UNCHANGED <<fileVars, passVars, streamVars, zipVars, convVars>>

\* line 62 when the budget is used up: the loop is left
ScrollBudgetExhausted ==
    /\ scrollPc = "loop"
    /\ ~WithinBudget(scroll_attempts)
    /\ scrollPc' = "done"
    /\ UNCHANGED <<last_category_count, scroll_attempts, nReads, scrollSteps,
                   prevRead, firstRead, increasing, constant, sawNoNew>>
    /\ UNCHANGED <<fileVars, passVars, streamVars, zipVars, convVars>>

----------------------------------------------------------------------------
(* The files and save_to_csv: categories_scraper.py 13-17 and 45-51,       *)
(* streamers_scraper.py 12-17 and 68-74                                     *)

CATEGORY_CSV == "data/twitch_categories.csv"
last_categories_CSV == "data/last_categories.csv"
STREAMS_CSV == "data/twitch_streams.csv"
LAST_STREAMS_CSV == "data/last_streams.csv"

Paths == {CATEGORY_CSV, last_categories_CSV, STREAMS_CSV, LAST_STREAMS_CSV}

CategoryColumns == <<"Timestamp", "Category", "Viewers", "Tags", "Image_URL">>
StreamColumns == <<"Timestamp", "Category", "Stream Title", "Channel", "Viewers", "Tags">>

Absent == [exists |-> FALSE, rows |-> <<>>]

HeaderRow(columns) == [kind |-> "header", cols |-> columns]
DataRow(rec) == [kind |-> "data", rec |-> rec]

\* pd.DataFrame(data, columns=...): each record's cells in the columns
DataFrame(records, columns) ==
    [i \in 1..Len(records) |->
        [c \in Range(columns) |->
            IF c \in DOMAIN records[i] THEN records[i][c] ELSE "NaN"]]

\* line 48: mode = 'w' if overwrite else 'a'
WriteModeAlwaysAppend(overwrite) == "a"
WriteMode(overwrite) == IF overwrite THEN "w" ELSE "a"

\* line 49: header = overwrite or not os.path.exists(file_path)
WriteHeaderAlways(overwrite, exists) == TRUE
WriteHeader(overwrite, exists) == overwrite \/ ~exists

\* df.to_csv(file_path, mode=mode, header=header, index=False)
to_csv(file, df, mode, header, columns) ==
    LET written == (IF header THEN <<HeaderRow(columns)>> ELSE <<>>)
                   \o [i \in 1..Len(df) |-> DataRow(df[i])]
    IN  [exists |-> TRUE,
         rows |-> IF mode = "w" THEN written ELSE file.rows \o written]

\* save_to_csv, on the file as it is: the file as it is left
SavedFile(file, records, overwrite, columns) ==
    to_csv(file, DataFrame(records, columns), WriteMode(overwrite),
           WriteHeader(overwrite, file.exists), columns)

\* save_to_csv of categories_scraper.py
save_categories_to_csv(records, file_path, overwrite) ==
    /\ fs' = [fs EXCEPT ![file_path] =
                SavedFile(fs[file_path], records, overwrite, CategoryColumns)]
    /\ calls' = Append(calls, [path |-> file_path, overwrite |-> overwrite,
                               records |-> records])

\* save_to_csv of streamers_scraper.py
save_streams_to_csv(records, file_path, overwrite) ==
    /\ fs' = [fs EXCEPT ![file_path] =
                SavedFile(fs[file_path], records, overwrite, StreamColumns)]
    /\ calls' = Append(calls, [path |-> file_path, overwrite |-> overwrite,
                               records |-> records])

\* what a file holds
HeaderCount(file) == Cardinality({i \in 1..Len(file.rows) : file.rows[i].kind = "header"})
DataRows(file) ==
    LET rows == SelectSeq(file.rows, LAMBDA r : r.kind = "data")
    IN  [i \in 1..Len(rows) |-> rows[i].rec]

FilesIdle ==
    /\ fs = [p \in Paths |-> Absent]
    /\ calls = <<>>

----------------------------------------------------------------------------
(* Extraction of one item of the directory page: categories_scraper.py     *)
(* 104-134.  An item is what its probes find: the texts of its h2, p, tag   *)
(* span and img elements, and whether a probe throws (a stale element).     *)

Unknown == <<"U", "n", "k", "n", "o", "w", "n">>
NoTags == <<"N", "o", " ", "T", "a", "g", "s">>
NoImage == <<"N", "o", " ", "I", "m", "a", "g", "e">>

\* ", ".join(texts)
RECURSIVE Join(_)
Join(texts) ==
    IF texts = <<>> THEN <<>>
    ELSE IF Len(texts) = 1 THEN texts[1]
    ELSE texts[1] \o <<",", " ">> \o Join(Tail(texts))

\* line 106
CategoryName(item) == IF item.h2 # <<>> THEN Strip(item.h2[1]) ELSE Unknown

\* line 109
ViewersOfOneWhenMissing(item) ==
    IF item.p # <<>> THEN convert_viewers_count(item.p[1]) ELSE Value(1)
ViewersOf(item) == IF item.p # <<>> THEN convert_viewers_count(item.p[1]) ELSE Value(0)

\* line 112
TagsOf(item) ==
    IF item.spans # <<>>
    THEN LET kept == SelectSeq(item.spans, LAMBDA t : Strip(t) # <<>>)
         IN  Join([i \in 1..Len(kept) |-> Strip(kept[i])])
    ELSE NoTags

\* lines 115-121
ImageOf(item) == IF item.img # <<>> THEN item.img[1] ELSE NoImage

\* line 123
RetainedIfEither(category_name, viewers) == category_name # Unknown \/ viewers > 0
Retained(category_name, viewers) == category_name # Unknown /\ viewers > 0

\* lines 104-134: the record appended to categories_data, if any; a throwing
\* probe or a raising convert_viewers_count ends the item in the handler of
\* line 136
ExtractItem(item, timestamp) ==
    IF item.stale \/ ViewersOf(item).raises
    THEN [raises |-> TRUE, records |-> <<>>]
    ELSE IF Retained(CategoryName(item), ViewersOf(item).value)
         THEN [raises |-> FALSE,
               records |-> <<[Timestamp |-> timestamp,
                              Category |-> CategoryName(item),
                              Viewers |-> ViewersOf(item).value,
                              Tags |-> TagsOf(item),
                              Image_URL |-> ImageOf(item)]>>]
         ELSE [raises |-> FALSE, records |-> <<>>]

\* the items of the model
Item(h2, p, spans, img, stale) ==
    [h2 |-> h2, p |-> p, spans |-> spans, img |-> img, stale |-> stale]

ItemKinds ==
    { \* a full card
      Item(<<<<"A", "r", "t">>>>, <<<<"1", "2", " ", "v", "i", "e", "w", "e", "r", "s">>>>,
           <<<<"I", "R", "L">>, <<" ">>>>, <<<<"a", ".", "j", "p", "g">>>>, FALSE),
      \* a card with neither tags nor image, its count in thousands
      Item(<<<<" ", "G", "o">>>>, <<<<"1", ".", "5", "K">>>>, <<>>, <<>>, FALSE),
      \* a card with no viewers
      Item(<<<<"Z", "e", "d">>>>, <<<<"0">>>>, <<>>, <<>>, FALSE),
      \* a card with no h2
      Item(<<>>, <<<<"7">>>>, <<>>, <<>>, FALSE),
      \* a card with no p
      Item(<<<<"N", "o", "P">>>>, <<>>, <<>>, <<>>, FALSE),
      \* a card one of whose probes throws
      Item(<<<<"O", "l", "d">>>>, <<<<"3">>>>, <<>>, <<>>, TRUE),
      \* a card whose count is the thousands marker alone
      Item(<<<<"B", "a", "d">>>>, <<<<"K">>>>, <<>>, <<>>, FALSE) }

----------------------------------------------------------------------------
(* The category pass: categories_scraper.py 28 and 84-153.  A run is one   *)
(* execution of the script; its records carry the number of the run as     *)
(* their timestamp (a run takes seconds, the timestamp has seconds).        *)

\* the overwrite arguments of lines 141 and 142
HistoryOverwritten == TRUE
HistoryOverwrite == FALSE
SnapshotOverwriteForgotten == FALSE
SnapshotOverwrite == TRUE

ScrollUntouched == UNCHANGED scrollVars
StreamUntouched == UNCHANGED <<streamVars, zipVars, convVars>>

\* the script after line 28: the driver is acquired, nothing is scraped yet
PassEntry(run, files) ==
    /\ pc = "nav" /\ driver = "open" /\ clock = run /\ raised = FALSE
    /\ nItems = 0 /\ page = <<>> /\ categories_data = <<>>
    /\ fsAtStart = files

\* line 86, outside the try of line 88: driver.get returns, or its exception
\* leaves scrape_twitch_categories and ends the script at line 150
CatNavigate ==
    /\ pc = "nav"
    /\ \/ pc' = "wait" /\ UNCHANGED raised
       \/ pc' = "crashed" /\ raised' = TRUE
    /\ UNCHANGED <<driver, clock, nItems, page, categories_data, fsAtStart, fileVars>>
    /\ ScrollUntouched /\ StreamUntouched

\* lines 89-92: the bounded wait for a first item; a timeout is caught at 146
CatWait ==
    /\ pc = "wait"
    /\ \/ pc' = "scroll"
       \/ pc' = "quit"
    /\ UNCHANGED <<driver, clock, raised, nItems, page, categories_data, fsAtStart, fileVars>>
    /\ ScrollUntouched /\ StreamUntouched

\* line 95: scroll_to_load_more, which changes only its locals and the page
\* and always returns (SpecScroll); a driver fault in it is caught at 146
CatScroll ==
    /\ pc = "scroll"
    /\ \/ pc' = "find"
       \/ pc' = "quit"
    /\ UNCHANGED <<driver, clock, raised, nItems, page, categories_data, fsAtStart, fileVars>>
    /\ ScrollUntouched /\ StreamUntouched

\* lines 98-101: the item handles are taken; a driver fault is caught at 146
CatFind ==
    /\ pc = "find"
    /\ \/ /\ \E n \in 0..MaxItems : nItems' = n
          /\ page' = <<>>
          /\ categories_data' = <<>>
          /\ pc' = "items"
       \/ /\ pc' = "quit"
          /\ UNCHANGED <<nItems, page, categories_data>>
    /\ UNCHANGED <<driver, clock, raised, fsAtStart, fileVars>>
    /\ ScrollUntouched /\ StreamUntouched

\* lines 134 and 136-137: the list after an item; the handler of an item
\* that raised leaves the list as it is and the loop goes on
CollectedLostOnFailure(so_far, result) ==
    IF result.raises THEN <<>> ELSE so_far \o result.records
Collected(so_far, result) == so_far \o result.records

\* lines 103-137: one item of the loop, what its probes find being one of
\* items
CatItemFrom(items) ==
    /\ pc = "items"
    /\ Len(page) < nItems
    /\ \E item \in items :
         /\ page' = Append(page, item)
         /\ categories_data' = Collected(categories_data, ExtractItem(item, clock))
    /\ UNCHANGED <<pc, driver, clock, raised, nItems, fsAtStart, fileVars>>
    /\ ScrollUntouched /\ StreamUntouched

\* an item of a run of the pass: what its probes find is drawn here, when
\* they are made
CatItem == CatItemFrom(ItemKinds)

\* the items of SpecItem: every combination of what the four probes may find
TagTexts == {<<"I", "R", "L">>, <<"F", "P", "S">>, <<" ">>, <<>>}
Items ==
    { Item(h2, p, spans, img, stale) :
        h2 \in {<<>>, <<<<"A", "r", "t">>>>, <<<<" ", "G", "o">>>>, <<Unknown>>},
        p \in {<<>>, <<<<"1", "2", " ", "v", "i", "e", "w", "e", "r", "s">>>>,
                <<<<"1", ".", "5", "K">>>>, <<<<"0">>>>, <<<<"K">>>>},
        spans \in SeqsUpTo(TagTexts, MaxTags),
        img \in {<<>>, <<<<"a", ".", "j", "p", "g">>>>},
        stale \in BOOLEAN }

\* the per-item body on any item
ItemExtract == CatItemFrom(Items)

\* lines 140-141: the history is appended to, if any record resulted
CatStoreHistory ==
    /\ pc = "items"
    /\ Len(page) = nItems
    /\ IF categories_data # <<>>
       THEN /\ save_categories_to_csv(categories_data, CATEGORY_CSV, HistoryOverwrite)
            /\ pc' = "snapshot"
       ELSE /\ pc' = "quit"
            /\ UNCHANGED fileVars
    /\ UNCHANGED <<driver, clock, raised, nItems, page, categories_data, fsAtStart>>
    /\ ScrollUntouched /\ StreamUntouched

\* line 142: the snapshot is overwritten
CatStoreSnapshot ==
    /\ pc = "snapshot"
    /\ save_categories_to_csv(categories_data, last_categories_CSV, SnapshotOverwrite)
    /\ pc' = "quit"
    /\ UNCHANGED <<driver, clock, raised, nItems, page, categories_data, fsAtStart>>
    /\ ScrollUntouched /\ StreamUntouched

\* line 153
CatQuit ==
    /\ pc = "quit"
    /\ driver' = "closed"
    /\ pc' = "done"
    /\ UNCHANGED <<clock, raised, nItems, page, categories_data, fsAtStart, fileVars>>
    /\ ScrollUntouched /\ StreamUntouched

\* the script is run again
CatRunAgain ==
    /\ pc \in {"done", "crashed"}
    /\ clock < MaxRuns
    /\ pc' = "nav" /\ driver' = "open" /\ clock' = clock + 1 /\ raised' = FALSE
    /\ nItems' = 0 /\ page' = <<>> /\ categories_data' = <<>>
    /\ fsAtStart' = fs
    /\ UNCHANGED fileVars
    /\ ScrollUntouched /\ StreamUntouched

----------------------------------------------------------------------------
(* Stream-mode extraction of one category page: streamers_scraper.py        *)
(* 88-116.  A page is the texts of the handles its four queries return.     *)

\* the "if x.text.strip()" of lines 90, 93, 96 and 99
KeptTextsUnfiltered(texts) == texts
KeptTexts(texts) == SelectSeq(texts, LAMBDA t : Strip(t) # <<>>)

\* line 102
MinLength(a, b, c, d) == Min(Min(a, b), Min(c, d))

\* lines 106-113: one record
StreamRecord(timestamp, category, title, channel, viewers, tag) ==
    [c \in Range(StreamColumns) |->
        CASE c = "Timestamp" -> timestamp
          [] c = "Category" -> category
          [] c = "Stream Title" -> title
          [] c = "Channel" -> channel
          [] c = "Viewers" -> viewers
          [] c = "Tags" -> tag]

\* lines 89-116: the records returned; a raising convert_viewers_count ends
\* the page in the handler of line 118, which returns []
ExtractStreams(category, h, timestamp) ==
    LET streamer_names == KeptTexts(h.titles)
        channel_names == KeptTexts(h.channels)
        viewers_texts == KeptTexts(h.viewers)
        tags_list == KeptTexts(h.tags)
        min_length == MinLength(Len(streamer_names), Len(channel_names),
                                Len(viewers_texts), Len(tags_list))
    IN  IF \E i \in 1..Len(viewers_texts) : convert_viewers_count(viewers_texts[i]).raises
        THEN [raises |-> TRUE, records |-> <<>>]
        ELSE [raises |-> FALSE,
              records |-> [i \in 1..min_length |->
                  StreamRecord(timestamp, category, streamer_names[i], channel_names[i],
                               convert_viewers_count(viewers_texts[i]).value,
                               tags_list[i])]]

\* the pages of the model: the handle at index i of a list has a text that
\* names the list and i, except at most one handle of the page, whose text
\* is blank or, in the viewers list, the thousands marker alone
DigitChar(i) == <<"1", "2", "3", "4", "5", "6", "7", "8", "9">>[i]
TitleText(i) == <<"t", DigitChar(i)>>
ChannelText(i) == <<"c", DigitChar(i)>>
ViewersText(i) == <<DigitChar(i), "K">>
TagText(i) == <<"g", DigitChar(i)>>
BlankText == <<" ">>
MarkerText == <<"K">>

PageOf(n, odd, pos, oddText) ==
    [titles   |-> [i \in 1..n[1] |-> IF odd = 1 /\ pos = i THEN oddText ELSE TitleText(i)],
     channels |-> [i \in 1..n[2] |-> IF odd = 2 /\ pos = i THEN oddText ELSE ChannelText(i)],
     viewers  |-> [i \in 1..n[3] |-> IF odd = 3 /\ pos = i THEN oddText ELSE ViewersText(i)],
     tags     |-> [i \in 1..n[4] |-> IF odd = 4 /\ pos = i THEN oddText ELSE TagText(i)]]

\* the odd handle of a page: none (odd = 0), or the handle at pos of list odd
OddHandles(n) ==
    {<<0, 1, BlankText>>}
    \cup {<<odd, pos, BlankText>> : odd \in 1..4, pos \in 1..MaxHandles}
    \cup {<<3, pos, MarkerText>> : pos \in 1..MaxHandles}

NoPage == [titles |-> <<>>, channels |-> <<>>, viewers |-> <<>>, tags |-> <<>>]
NotReturned == [returned |-> FALSE, records |-> <<>>]

ZipIdle == handles = NoPage /\ data = NotReturned

ZipCategory == <<"A", "r", "t">>

\* lines 89-116 on the page drawn
ZipExtract ==
    /\ ~data.returned
    /\ data' = [returned |-> TRUE,
                records |-> ExtractStreams(ZipCategory, handles, 1).records]
    /\ UNCHANGED <<handles, scrollVars, fileVars, passVars, streamVars, convVars>>

----------------------------------------------------------------------------
(* The stream pass: streamers_scraper.py 22-45 and 77-136                   *)

\* pd.read_csv succeeds on a file that starts with a header row, and line 29
\* on one that has the Category column
ReadableAlways(file) == TRUE
Readable(file) ==
    /\ file.rows # <<>>
    /\ file.rows[1].kind = "header"
    /\ "Category" \in Range(file.rows[1].cols)

\* .unique(): the first occurrences, in order
RECURSIVE Unique(_)
Unique(s) ==
    IF s = <<>> THEN <<>>
    ELSE LET front == Unique(SubSeq(s, 1, Len(s) - 1))
         IN  IF s[Len(s)] \in Range(front) THEN front ELSE Append(front, s[Len(s)])

\* line 29: categories_df['Category'].dropna().unique().tolist(); an empty
\* cell of the file is read as NaN
Catalog(file) ==
    LET rows == DataRows(file)
        names == [i \in 1..Len(rows) |-> rows[i]["Category"]]
    IN  Unique(SelectSeq(names, LAMBDA name : name # <<>>))

StreamIdle ==
    /\ categories = <<>> /\ catIdx = 1 /\ all_last_streams = <<>>
    /\ visited = <<>> /\ outcomes = <<>>

CatUntouched == UNCHANGED <<nItems, page, categories_data>>
OtherUntouched == ScrollUntouched /\ CatUntouched /\ UNCHANGED <<zipVars, convVars>>

\* the script at line 22
StreamEntry(run, files) ==
    /\ pc = "precheck" /\ driver = "none" /\ clock = run /\ raised = FALSE
    /\ nItems = 0 /\ page = <<>> /\ categories_data = <<>>
    /\ fsAtStart = files
    /\ StreamIdle

\* lines 23-25
StreamPrecheck ==
    /\ pc = "precheck"
    /\ pc' = IF fs[last_categories_CSV].exists THEN "read" ELSE "exited"
    /\ UNCHANGED <<driver, clock, raised, fsAtStart, fileVars, streamVars>>
    /\ OtherUntouched

\* lines 27-32
StreamRead ==
    /\ pc = "read"
    /\ IF Readable(fs[last_categories_CSV])
       THEN /\ categories' = Catalog(fs[last_categories_CSV])
            /\ pc' = "driver"
       ELSE /\ pc' = "exited"
            /\ UNCHANGED categories
    /\ UNCHANGED <<driver, clock, raised, fsAtStart, fileVars,
                   catIdx, all_last_streams, visited, outcomes>>
    /\ OtherUntouched

\* lines 45 and 123
StreamDriver ==
    /\ pc = "driver"
    /\ driver' = "open"
    /\ all_last_streams' = <<>>
    /\ pc' = "loop"
    /\ UNCHANGED <<clock, raised, fsAtStart, fileVars, categories, catIdx, visited, outcomes>>
    /\ OtherUntouched

\* line 124: the loop is over when every category has been taken
LoopEndedBeforeLast(idx, cats) == idx >= Len(cats)
LoopEnded(idx, cats) == idx > Len(cats)

\* the overwrite arguments of lines 129 and 132
StreamSnapshotAppended == FALSE
StreamSnapshotOverwrite == TRUE
StreamHistoryOverwrite == FALSE

\* lines 124-125 and 79-81, outside the try of line 83: driver.get returns,
\* or its exception leaves scrape_twitch_category and the loop of line 124
StreamNavigate ==
    /\ pc = "loop"
    /\ ~LoopEnded(catIdx, categories)
    /\ visited' = Append(visited, categories[catIdx])
    /\ \/ pc' = "scrape" /\ UNCHANGED raised
       \/ pc' = "crashed" /\ raised' = TRUE
    /\ UNCHANGED <<driver, clock, fsAtStart, fileVars, categories, catIdx,
                   all_last_streams, outcomes>>
    /\ OtherUntouched

\* the pages a category shows in a run of the pass
StreamPages ==
    { PageOf(<<1, 1, 1, 1>>, 0, 1, BlankText),
      PageOf(<<2, 1, 2, 2>>, 0, 1, BlankText),
      PageOf(<<2, 2, 2, 2>>, 0, 1, BlankText),
      PageOf(<<1, 1, 1, 1>>, 3, 1, MarkerText) }

\* lines 83-120 and 126: the wait times out, or the page is extracted; the
\* list returned is added to the aggregate
StreamScrape ==
    /\ pc = "scrape"
    /\ \E result \in {[raises |-> TRUE, records |-> <<>>]}
                     \cup {ExtractStreams(categories[catIdx], h, clock) : h \in StreamPages} :
         /\ all_last_streams' = all_last_streams \o result.records
         /\ outcomes' = Append(outcomes, [category |-> categories[catIdx],
                                          failed |-> result.raises,
                                          records |-> result.records])
    /\ catIdx' = catIdx + 1
    /\ pc' = "loop"
    /\ UNCHANGED <<driver, clock, raised, fsAtStart, fileVars, categories, visited>>
    /\ OtherUntouched

\* line 129
StreamStoreSnapshot ==
    /\ pc = "loop"
    /\ LoopEnded(catIdx, categories)
    /\ save_streams_to_csv(all_last_streams, LAST_STREAMS_CSV, StreamSnapshotOverwrite)
    /\ pc' = "history"
    /\ UNCHANGED <<driver, clock, raised, fsAtStart, streamVars>>
    /\ OtherUntouched

\* line 132
StreamStoreHistory ==
    /\ pc = "history"
    /\ save_streams_to_csv(all_last_streams, STREAMS_CSV, StreamHistoryOverwrite)
    /\ pc' = "quit"
    /\ UNCHANGED <<driver, clock, raised, fsAtStart, streamVars>>
    /\ OtherUntouched

\* line 135
StreamQuit ==
    /\ pc = "quit"
    /\ driver' = "closed"
    /\ pc' = "done"
    /\ UNCHANGED <<clock, raised, fsAtStart, fileVars, streamVars>>
    /\ OtherUntouched

\* the script is run again
StreamRunAgain ==
    /\ pc \in {"done", "crashed", "exited"}
    /\ clock < MaxRuns
    /\ pc' = "precheck" /\ driver' = "none" /\ clock' = clock + 1 /\ raised' = FALSE
    /\ fsAtStart' = fs
    /\ categories' = <<>> /\ catIdx' = 1 /\ all_last_streams' = <<>>
    /\ visited' = <<>> /\ outcomes' = <<>>
    /\ UNCHANGED fileVars
    /\ OtherUntouched

\* between two runs of the stream pass the category snapshot may go: the
\* check of line 23 is there for a file that is not there
CategorySnapshotRemoved ==
    /\ pc \in {"done", "crashed", "exited"}
    /\ fs[last_categories_CSV].exists
    /\ fs' = [fs EXCEPT ![last_categories_CSV] = Absent]
    /\ UNCHANGED <<calls, passVars, streamVars>>
    /\ OtherUntouched

----------------------------------------------------------------------------
(* Any sequence of save_to_csv calls, of either script, on a file of its    *)
(* own.  The records of a call carry the number of the call and their       *)
(* place in it.                                                             *)

CsvCategoryRecords(call, n) ==
    [i \in 1..n |-> [Timestamp |-> call, Category |-> <<"A", "r", "t">>,
                     Viewers |-> i, Tags |-> NoTags, Image_URL |-> NoImage]]

CsvStreamRecords(call, n) ==
    [i \in 1..n |-> StreamRecord(call, <<"A", "r", "t">>, TitleText(i), ChannelText(i),
                                 i, TagText(i))]

CsvSaveCategories ==
    /\ Len(calls) < MaxCalls
    /\ \E n \in 0..MaxRows, overwrite \in BOOLEAN :
         save_categories_to_csv(CsvCategoryRecords(Len(calls) + 1, n), CATEGORY_CSV,
                                overwrite)
    /\ UNCHANGED <<scrollVars, passVars, streamVars, zipVars, convVars>>

CsvSaveStreams ==
    /\ Len(calls) < MaxCalls
    /\ \E n \in 0..MaxRows, overwrite \in BOOLEAN :
         save_streams_to_csv(CsvStreamRecords(Len(calls) + 1, n), STREAMS_CSV, overwrite)
    /\ UNCHANGED <<scrollVars, passVars, streamVars, zipVars, convVars>>

----------------------------------------------------------------------------
(* The specifications *)

PassIdle ==
    /\ pc = "idle" /\ driver = "none" /\ clock = 0 /\ raised = FALSE
    /\ nItems = 0 /\ page = <<>> /\ categories_data = <<>>
    /\ fsAtStart = [p \in Paths |-> Absent]

\* the scroll loop alone, on every sequence of counts
InitScroll == ScrollEntry /\ FilesIdle /\ PassIdle /\ StreamIdle /\ ZipIdle /\ ConvIdle
NextScroll == ScrollIteration \/ ScrollBudgetExhausted
SpecScroll == InitScroll /\ [][NextScroll]_vars
\* the loop is sequential code: it goes on until it is left
SpecScrollFair == SpecScroll /\ WF_vars(NextScroll)

\* save_to_csv alone, all files absent at first
InitCsv == ScrollIdle /\ FilesIdle /\ PassIdle /\ StreamIdle /\ ZipIdle /\ ConvIdle
NextCsv == CsvSaveCategories \/ CsvSaveStreams
SpecCsv == InitCsv /\ [][NextCsv]_vars

\* runs of the category pass, all files absent at first
InitCat ==
    /\ ScrollIdle /\ FilesIdle /\ StreamIdle /\ ZipIdle /\ ConvIdle
    /\ PassEntry(1, [p \in Paths |-> Absent])
NextCat ==
    \/ CatNavigate \/ CatWait \/ CatScroll \/ CatFind \/ CatItem
    \/ CatStoreHistory \/ CatStoreSnapshot \/ CatQuit \/ CatRunAgain
SpecCat == InitCat /\ [][NextCat]_vars

\* stream-mode extraction of one page, on every page of the model
InitZip ==
    /\ ScrollIdle /\ FilesIdle /\ PassIdle /\ StreamIdle /\ ConvIdle
    /\ \E n \in [1..4 -> 0..MaxHandles] :
         \E o \in OddHandles(n) :
            /\ o[1] # 0 => o[2] <= n[o[1]]
            /\ handles = PageOf(n, o[1], o[2], o[3])
    /\ data = NotReturned
NextZip == ZipExtract
SpecZip == InitZip /\ [][NextZip]_vars

\* the category snapshots the stream pass may find: none, an empty file, a
\* file without the Category column, or a header and the rows of a category
\* pass
CatalogNames == {<<"A", "r", "t">>, <<"I", "R", "L">>, <<>>}
SnapshotOf(names) ==
    [exists |-> TRUE,
     rows |-> <<HeaderRow(CategoryColumns)>> \o
              [i \in 1..Len(names) |->
                  DataRow([Timestamp |-> 0, Category |-> names[i], Viewers |-> i,
                           Tags |-> NoTags, Image_URL |-> NoImage])]]
Snapshots ==
    {Absent, [exists |-> TRUE, rows |-> <<>>],
     [exists |-> TRUE, rows |-> <<HeaderRow(<<"Timestamp", "Viewers">>)>>]}
    \cup {SnapshotOf(names) : names \in SeqsUpTo(CatalogNames, MaxCatalog)}

\* runs of the stream pass, the stream files absent at first
InitStream ==
    /\ ScrollIdle /\ ZipIdle /\ ConvIdle
    /\ \E snapshot \in Snapshots :
         fs = [p \in Paths |-> IF p = last_categories_CSV THEN snapshot ELSE Absent]
    /\ calls = <<>>
    /\ StreamEntry(1, fs)
NextStream ==
    \/ StreamPrecheck \/ StreamRead \/ StreamDriver \/ StreamNavigate \/ StreamScrape
    \/ StreamStoreSnapshot \/ StreamStoreHistory \/ StreamQuit \/ StreamRunAgain
    \/ CategorySnapshotRemoved
SpecStream == InitStream /\ [][NextStream]_vars
\* the script is sequential code: lines 22-32 go on until the script is
\* past them or has ended
SpecStreamFair == SpecStream /\ WF_vars(StreamPrecheck \/ StreamRead)

\* extraction of one item, on every item of the model
InitItem ==
    /\ ScrollIdle /\ FilesIdle /\ StreamIdle /\ ZipIdle /\ ConvIdle
    /\ pc = "items" /\ driver = "open" /\ clock = 1 /\ raised = FALSE
    /\ nItems = 1 /\ page = <<>> /\ categories_data = <<>>
    /\ fsAtStart = fs
NextItem == ItemExtract
SpecItem == InitItem /\ [][NextItem]_vars

\* the two passes run one after the other in any order, all files absent at
\* first
InitRuns ==
    /\ ScrollIdle /\ FilesIdle /\ StreamIdle /\ ZipIdle /\ ConvIdle
    /\ \/ PassEntry(1, [p \in Paths |-> Absent])
       \/ StreamEntry(1, [p \in Paths |-> Absent])
NextRuns ==
    \/ CatNavigate \/ CatWait \/ CatScroll \/ CatFind \/ CatItem
    \/ CatStoreHistory \/ CatStoreSnapshot \/ CatQuit \/ CatRunAgain
    \/ StreamPrecheck \/ StreamRead \/ StreamDriver \/ StreamNavigate \/ StreamScrape
    \/ StreamStoreSnapshot \/ StreamStoreHistory \/ StreamQuit \/ StreamRunAgain
SpecRuns == InitRuns /\ [][NextRuns]_vars

\* convert_viewers_count alone, on every text of up to MaxText of the
\* characters, with and without the unit
InitConvert ==
    /\ ScrollIdle /\ FilesIdle /\ PassIdle /\ StreamIdle /\ ZipIdle
    /\ \E body \in SeqsUpTo(TextChars, MaxText), unit \in {<<>>, Suffix} :
         viewers_text = body \o unit
    /\ converted = NotConverted
NextConvert == ConvertCall
SpecConvert == InitConvert /\ [][NextConvert]_vars

----------------------------------------------------------------------------
(* The scroll loop: C1, C2, C3 *)

ScrollDone == scrollPc = "done"

\* C1: on every sequence of counts the scroll loop ends, having issued at most
\* max_scroll_attempts scroll steps; it is left at the first read that equals
\* the count before it (no read follows such a read), and otherwise only when
\* scroll_attempts has reached max_scroll_attempts.
C1_ScrollEndsWithinBudget ==
    /\ [](/\ scrollSteps <= max_scroll_attempts
          /\ scroll_attempts <= max_scroll_attempts
          /\ nReads <= max_scroll_attempts
          /\ sawNoNew => ScrollDone
          /\ ScrollDone => (sawNoNew \/ scroll_attempts = max_scroll_attempts))
    /\ <>ScrollDone

\* C1 witness: the loop was left because the budget was used up
C1_Witness == ScrollDone /\ ~sawNoNew /\ scrollSteps = max_scroll_attempts

\* C2 as claimed: when every read exceeds the read before it, the loop ends
\* after exactly 40 reads and 40 scroll steps.
C2_AsClaimed ==
    (ScrollDone /\ increasing) =>
        (nReads = max_scroll_attempts /\ scrollSteps = max_scroll_attempts)

\* C2 as amended: when every read exceeds the read before it and the first
\* read exceeds 0 (the count the loop starts from), the loop ends after exactly
\* 40 reads and 40 scroll steps.
C2_IncreasingRunsWholeBudget ==
    (ScrollDone /\ increasing /\ firstRead = "positive") =>
        /\ nReads = max_scroll_attempts
        /\ scrollSteps = max_scroll_attempts
        /\ scroll_attempts = max_scroll_attempts

\* C2 witness: a loop that ended on forty increasing reads
C2_Witness ==
    ScrollDone /\ increasing /\ firstRead = "positive" /\ nReads = max_scroll_attempts

\* C3 as claimed: when every read is the same value, the loop ends after the
\* second read, with one scroll step.
C3_AsClaimed == (ScrollDone /\ constant) => (nReads = 2 /\ scrollSteps = 1)

\* C3 as amended: when every read is the same value v, the loop ends after the
\* second read with exactly one scroll step if v > 0, and after the first read
\* with no scroll step if v = 0.
C3_ConstantStopsAtSecondRead ==
    (ScrollDone /\ constant) =>
        IF prevRead > 0 THEN nReads = 2 /\ scrollSteps = 1
                        ELSE nReads = 1 /\ scrollSteps = 0

\* C3 witness: a loop that ended on two equal reads of a positive count
C3_Witness == ScrollDone /\ constant /\ prevRead > 0 /\ nReads = 2

----------------------------------------------------------------------------
(* Category extraction and its files: C4, C8, C9 *)

\* what the claims call an item that passes the retention filter: its name
\* and its viewer count are read, the name is not the sentinel and the count
\* is above 0
PassesFilter(item) ==
    /\ ~item.stale
    /\ item.h2 # <<>> /\ Strip(item.h2[1]) # Unknown
    /\ item.p # <<>>
    /\ ~convert_viewers_count(item.p[1]).raises
    /\ convert_viewers_count(item.p[1]).value > 0

RecordOf(item, timestamp) ==
    [Timestamp |-> timestamp,
     Category |-> Strip(item.h2[1]),
     Viewers |-> convert_viewers_count(item.p[1]).value,
     Tags |-> TagsOf(item),
     Image_URL |-> ImageOf(item)]

RecordsOf(items, timestamp) ==
    LET passing == SelectSeq(items, PassesFilter)
    IN  [i \in 1..Len(passing) |-> RecordOf(passing[i], timestamp)]

CategoryFiles == {CATEGORY_CSV, last_categories_CSV}

GoodRecord(rec) == rec["Category"] # Unknown /\ rec["Viewers"] # 0

\* C4: neither the records collected so far nor the rows of the category
\* files hold a record named "Unknown" or with 0 viewers, and an item whose
\* viewer count is missing or 0 has no record among those collected.
C4_NoUnknownNoZeroViewers ==
    /\ \A i \in 1..Len(categories_data) : GoodRecord(categories_data[i])
    /\ \A p \in CategoryFiles :
         \A i \in 1..Len(DataRows(fs[p])) : GoodRecord(DataRows(fs[p])[i])
    /\ \A i \in 1..Len(page) :
         (/\ page[i].h2 # <<>>
          /\ \/ page[i].p = <<>>
             \/ convert_viewers_count(page[i].p[1]) = Value(0))
         => \A j \in 1..Len(categories_data) :
               categories_data[j]["Category"] # Strip(page[i].h2[1])

\* C4 witness: a finished run whose page had an item without a name, and an
\* item without a viewer count or with 0 viewers
C4_Witness ==
    /\ pc = "done" /\ Len(page) = 2
    /\ page[1].h2 = <<>>
    /\ page[2].h2 # <<>>
    /\ page[2].p = <<>> \/ convert_viewers_count(page[2].p[1]) = Value(0)

\* C8 as claimed: after every run of the category pass the snapshot holds
\* exactly the records of that run.
C8_AsClaimed ==
    pc = "done" => DataRows(fs[last_categories_CSV]) = categories_data

\* C8 as amended: after a run of the category pass that produced at least one
\* record the snapshot holds one header and exactly the records of that run;
\* after a run that produced none the snapshot is as it was before the run.
C8_SnapshotReplacedWhenRecords ==
    pc = "done" =>
        IF categories_data # <<>>
        THEN /\ DataRows(fs[last_categories_CSV]) = categories_data
             /\ HeaderCount(fs[last_categories_CSV]) = 1
        ELSE fs[last_categories_CSV] = fsAtStart[last_categories_CSV]

\* C8 witness: a later run has replaced the snapshot of an earlier run
C8_Witness ==
    /\ pc = "done" /\ categories_data # <<>>
    /\ fsAtStart[last_categories_CSV].exists
    /\ DataRows(fsAtStart[last_categories_CSV]) # categories_data

\* C9: a finished run of whose items k >= 1 pass the filter has appended
\* exactly their k records to the history and left exactly them in the
\* snapshot.
C9_RunWritesRetainedRecords ==
    (pc = "done" /\ RecordsOf(page, clock) # <<>>) =>
        /\ DataRows(fs[CATEGORY_CSV]) =
              DataRows(fsAtStart[CATEGORY_CSV]) \o RecordsOf(page, clock)
        /\ DataRows(fs[last_categories_CSV]) = RecordsOf(page, clock)

\* C9 witness: a first run on one valid item and one item with 0 viewers has
\* left one row, of the valid item, in each file
C9_Witness ==
    /\ pc = "done" /\ clock = 1 /\ Len(page) = 2
    /\ PassesFilter(page[1])
    /\ page[2].p # <<>> /\ convert_viewers_count(page[2].p[1]) = Value(0)
    /\ DataRows(fs[CATEGORY_CSV]) = <<RecordOf(page[1], 1)>>
    /\ DataRows(fs[last_categories_CSV]) = <<RecordOf(page[1], 1)>>

----------------------------------------------------------------------------
(* save_to_csv: C6, C7 *)

CallsTo(p) == SelectSeq(calls, LAMBDA c : c.path = p)

RECURSIVE RecordsOfCalls(_)
RecordsOfCalls(cs) ==
    IF cs = <<>> THEN <<>> ELSE Head(cs).records \o RecordsOfCalls(Tail(cs))

ColumnsOf(p) == IF p \in CategoryFiles THEN CategoryColumns ELSE StreamColumns

\* C6: a file that was absent and has since been written by appending calls
\* only holds one header, as its first row, and then the records of every
\* call, in the order of the calls.
C6_AppendsKeepOneHeaderAndAllRows ==
    \A p \in Paths :
        (CallsTo(p) # <<>> /\ \A i \in 1..Len(CallsTo(p)) : ~CallsTo(p)[i].overwrite)
        => /\ fs[p].exists
           /\ fs[p].rows # <<>>
           /\ fs[p].rows[1] = HeaderRow(ColumnsOf(p))
           /\ HeaderCount(fs[p]) = 1
           /\ DataRows(fs[p]) = RecordsOfCalls(CallsTo(p))

\* C6 witness: two appending calls, of 2 records and of 1, have left 3 rows
C6_Witness ==
    \E p \in Paths :
        /\ Len(CallsTo(p)) = 2
        /\ ~CallsTo(p)[1].overwrite /\ Len(CallsTo(p)[1].records) = 2
        /\ ~CallsTo(p)[2].overwrite /\ Len(CallsTo(p)[2].records) = 1
        /\ Len(DataRows(fs[p])) = 3

\* C7: a file whose last write was an overwriting call holds one header and
\* then exactly the records of that call.
C7_OverwriteLeavesOnlyItsRecords ==
    \A p \in Paths :
        (CallsTo(p) # <<>> /\ CallsTo(p)[Len(CallsTo(p))].overwrite)
        => LET records == CallsTo(p)[Len(CallsTo(p))].records
           IN  /\ fs[p].exists
               /\ fs[p].rows = <<HeaderRow(ColumnsOf(p))>> \o
                               [i \in 1..Len(records) |-> DataRow(records[i])]

\* C7 witness: the second of two overwriting calls with records
C7_Witness ==
    \E p \in Paths :
        /\ Len(CallsTo(p)) = 2
        /\ CallsTo(p)[1].overwrite /\ CallsTo(p)[1].records # <<>>
        /\ CallsTo(p)[2].overwrite /\ CallsTo(p)[2].records # <<>>
        /\ DataRows(fs[p]) = CallsTo(p)[2].records

----------------------------------------------------------------------------
(* Stream-mode extraction: C5 *)

NonBlank(text) == Strip(text) # <<>>

\* the number of handles, among the first j of a list, whose text is not blank
NonBlankUpTo(texts, j) == Cardinality({i \in 1..j : NonBlank(texts[i])})

\* the text of the k-th handle of a list whose text is not blank
NthNonBlank(texts, k) ==
    texts[CHOOSE j \in 1..Len(texts) : NonBlank(texts[j]) /\ NonBlankUpTo(texts, j) = k]

ConvertRaisesOn(h) ==
    \E i \in 1..Len(h.viewers) :
        NonBlank(h.viewers[i]) /\ convert_viewers_count(h.viewers[i]).raises

HandleLists == <<"titles", "channels", "viewers", "tags">>

\* C5 as claimed: the number of records is the least of the lengths of the
\* four handle lists, and record i is built from the handle at index i of
\* each list.
C5_AsClaimed ==
    data.returned =>
        /\ Len(data.records) = MinLength(Len(handles.titles), Len(handles.channels),
                                         Len(handles.viewers), Len(handles.tags))
        /\ \A i \in 1..Len(data.records) :
              /\ data.records[i]["Stream Title"] = handles.titles[i]
              /\ data.records[i]["Channel"] = handles.channels[i]
              /\ Value(data.records[i]["Viewers"]) = convert_viewers_count(handles.viewers[i])
              /\ data.records[i]["Tags"] = handles.tags[i]

\* C5 as amended: the number of records is the least, over the four handle
\* lists, of the number of handles whose text is not blank, and record i is
\* built from the i-th such handle of each list; a page with a viewer text on
\* which convert_viewers_count raises gives no record.
C5_ZipOfNonBlankHandles ==
    data.returned =>
        IF ConvertRaisesOn(handles)
        THEN data.records = <<>>
        ELSE /\ \E l \in 1..4 : Len(data.records) =
                    NonBlankUpTo(handles[HandleLists[l]], Len(handles[HandleLists[l]]))
             /\ \A l \in 1..4 : Len(data.records) <=
                    NonBlankUpTo(handles[HandleLists[l]], Len(handles[HandleLists[l]]))
             /\ \A i \in 1..Len(data.records) :
                   /\ data.records[i]["Stream Title"] = NthNonBlank(handles.titles, i)
                   /\ data.records[i]["Channel"] = NthNonBlank(handles.channels, i)
                   /\ Value(data.records[i]["Viewers"]) =
                         convert_viewers_count(NthNonBlank(handles.viewers, i))
                   /\ data.records[i]["Tags"] = NthNonBlank(handles.tags, i)
                   /\ data.records[i]["Category"] = ZipCategory

\* C5 witness: lists of lengths 5, 4, 6 and 3, the second tag handle blank,
\* have given 2 records, the second with the third tag
C5_Witness ==
    /\ data.returned
    /\ Len(handles.titles) = 5 /\ Len(handles.channels) = 4
    /\ Len(handles.viewers) = 6 /\ Len(handles.tags) = 3
    /\ ~NonBlank(handles.tags[2])
    /\ Len(data.records) = 2
    /\ data.records[2]["Tags"] = handles.tags[3]

----------------------------------------------------------------------------
(* The stream pass: C10 *)

RECURSIVE RecordsOfOutcomes(_)
RecordsOfOutcomes(os) ==
    IF os = <<>> THEN <<>> ELSE Head(os).records \o RecordsOfOutcomes(Tail(os))

\* C10: no exception leaves the per-category loop; a pass that has reached its
\* end has visited every category of the catalog, and has written the records
\* of every category that did not fail.
C10_AsClaimed ==
    /\ ~raised
    /\ pc # "crashed"
    /\ pc \in {"quit", "done"} =>
          /\ visited = categories
          /\ DataRows(fs[LAST_STREAMS_CSV]) = RecordsOfOutcomes(outcomes)

\* what holds of the code: a pass in which every navigation returns
\* visits every category and writes the records of those that did not fail
C10_HoldsWhenNavigationReturns ==
    pc \in {"quit", "done"} =>
        /\ visited = categories
        /\ DataRows(fs[LAST_STREAMS_CSV]) = RecordsOfOutcomes(outcomes)

----------------------------------------------------------------------------
(* The writes of the stream pass: C11 *)

StreamFiles == {STREAMS_CSV, LAST_STREAMS_CSV}

RowsOf(records) == [i \in 1..Len(records) |-> DataRow(records[i])]

SnapshotCall == [path |-> LAST_STREAMS_CSV, overwrite |-> TRUE, records |-> all_last_streams]
HistoryCall == [path |-> STREAMS_CSV, overwrite |-> FALSE, records |-> all_last_streams]

\* C11: the stream pass writes nothing before the last category of the
\* catalog has been scraped; it then writes the whole aggregate once to each
\* file, the snapshot by an overwriting call and after it the history by an
\* appending call, also when the aggregate is empty: the snapshot is then a
\* header and nothing else, and no exception has left the script.
C11_WritesOnceAfterLastCategory ==
    /\ [](/\ pc \in {"precheck", "read", "driver", "loop", "scrape", "crashed", "exited"}
                => \A p \in StreamFiles : fs[p] = fsAtStart[p]
          /\ pc \in {"history", "quit", "done"}
                => /\ Len(outcomes) = Len(categories)
                   /\ all_last_streams = RecordsOfOutcomes(outcomes)
                   /\ ~raised
                   /\ calls # <<>>
                   /\ fs[LAST_STREAMS_CSV].rows =
                         <<HeaderRow(StreamColumns)>> \o RowsOf(all_last_streams)
          /\ pc = "history"
                => /\ calls[Len(calls)] = SnapshotCall
                   /\ fs[STREAMS_CSV] = fsAtStart[STREAMS_CSV]
          /\ pc \in {"quit", "done"}
                => /\ Len(calls) >= 2
                   /\ calls[Len(calls) - 1] = SnapshotCall
                   /\ calls[Len(calls)] = HistoryCall
                   /\ fs[STREAMS_CSV].rows # <<>>
                   /\ fs[STREAMS_CSV].rows[1] = HeaderRow(StreamColumns)
                   /\ HeaderCount(fs[STREAMS_CSV]) = 1
                   /\ DataRows(fs[STREAMS_CSV]) =
                         DataRows(fsAtStart[STREAMS_CSV]) \o all_last_streams)
    /\ [][calls' # calls =>
            \/ pc = "loop" /\ pc' = "history" /\ calls' = Append(calls, SnapshotCall)
            \/ pc = "history" /\ pc' = "quit" /\ calls' = Append(calls, HistoryCall)]_vars

\* C11 witness: a first run whose only category timed out has left a header
\* and nothing else in each stream file
C11_Witness ==
    /\ pc = "done" /\ clock = 1
    /\ Len(categories) = 1 /\ Len(outcomes) = 1 /\ outcomes[1].failed
    /\ all_last_streams = <<>>
    /\ Len(calls) = 2
    /\ fs[LAST_STREAMS_CSV].rows = <<HeaderRow(StreamColumns)>>
    /\ fs[STREAMS_CSV].rows = <<HeaderRow(StreamColumns)>>

----------------------------------------------------------------------------
(* The precondition of the stream pass: C12 *)

\* a category snapshot no catalog can be read from: no file, no header, or
\* a header without the Category column
NoCatalogIn(file) ==
    \/ ~file.exists
    \/ file.rows = <<>>
    \/ file.rows[1].kind # "header"
    \/ "Category" \notin Range(file.rows[1].cols)

\* C12: a run of the stream pass that finds the category snapshot absent or
\* unreadable ends at the exit() of line 25 or 32, which follows the message,
\* having visited no category, acquired no driver and made no save_to_csv
\* call: the stream snapshot and the stream history are as they were.
C12_NoCatalogNoVisitNoWrite ==
    /\ [](NoCatalogIn(fsAtStart[last_categories_CSV]) =>
            /\ pc \in {"precheck", "read", "exited"}
            /\ visited = <<>> /\ outcomes = <<>>
            /\ driver = "none"
            /\ ~raised
            /\ \A p \in StreamFiles : fs[p] = fsAtStart[p])
    /\ [][NoCatalogIn(fsAtStart[last_categories_CSV]) => calls' = calls]_vars
    /\ (pc = "precheck" /\ NoCatalogIn(fsAtStart[last_categories_CSV])) ~> (pc = "exited")

\* C12 witness: a second run that found the category snapshot gone has
\* ended, the rows the first run wrote still in both stream files
C12_Witness ==
    /\ pc = "exited" /\ clock = 2
    /\ ~fsAtStart[last_categories_CSV].exists
    /\ DataRows(fs[LAST_STREAMS_CSV]) # <<>>
    /\ DataRows(fs[STREAMS_CSV]) # <<>>
    /\ Len(calls) = 2

----------------------------------------------------------------------------
(* Page-level failures of the category pass: C13 *)

\* C13 as claimed: no exception leaves scrape_twitch_categories; a run whose
\* navigation or whose wait for a first item failed goes on to driver.quit
\* and the end of the script, and leaves both category files as they were.
C13_AsClaimed ==
    /\ ~raised
    /\ pc # "crashed"
    /\ (pc \in {"quit", "done"} /\ nItems = 0) =>
          \A p \in CategoryFiles : fs[p] = fsAtStart[p]

\* what holds of the code: a failure of the wait (or of any later page-level
\* step) is caught at line 146, the run writes nothing and reaches
\* driver.quit; a failure of the navigation leaves the script with nothing
\* written
C13_WaitFailureIsCaught ==
    /\ (pc \in {"quit", "done"} /\ nItems = 0) =>
          (~raised /\ \A p \in CategoryFiles : fs[p] = fsAtStart[p])
    /\ pc = "crashed" => (raised /\ fs = fsAtStart /\ driver = "open")

----------------------------------------------------------------------------
(* The driver: C14 *)

Ended == pc \in {"done", "crashed", "exited"}

\* C14 as claimed: no run of either pass ends with the driver it acquired
\* still open.
C14_AsClaimed == Ended => driver # "open"

\* what holds of the code: a run that reaches the end of its script has
\* closed the driver, a run ended by the exit() of the precondition had
\* acquired none, and a run ended by an exception of driver.get leaves the
\* driver open
C14_ClosedUnlessNavigationRaised ==
    /\ pc = "done" => (driver = "closed" /\ ~raised)
    /\ pc = "exited" => (driver = "none" /\ ~raised)
    /\ pc = "crashed" => (driver = "open" /\ raised)

----------------------------------------------------------------------------
(* A failing item of the category pass: C15 *)

\* an item one of whose probes throws, or whose viewer text makes
\* convert_viewers_count raise
Failing(item) ==
    \/ item.stale
    \/ item.p # <<>> /\ convert_viewers_count(item.p[1]).raises

\* C15: an item whose extraction fails leaves categories_data as it was and
\* does not end the loop: after each item the records collected are those of
\* the valid items probed so far, whatever failed before or between them,
\* none of them bears the name of an item that failed, and the loop is left
\* only when every item handle has been probed.
C15_FailingItemIsSkipped ==
    /\ pc = "items" => categories_data = RecordsOf(page, clock)
    /\ pc \in {"snapshot", "quit", "done"} =>
          /\ Len(page) = nItems
          /\ categories_data = RecordsOf(page, clock)
    /\ \A i \in 1..Len(page) :
          Failing(page[i]) =>
             \A j \in 1..Len(categories_data) :
                categories_data[j]["Category"] # CategoryName(page[i])

\* C15 witness: a page whose first item failed and whose second item is
\* valid has given the record of the second
C15_Witness ==
    /\ pc = "done" /\ Len(page) = 2
    /\ Failing(page[1]) /\ PassesFilter(page[2])
    /\ categories_data = <<RecordOf(page[2], clock)>>
    /\ DataRows(fs[last_categories_CSV]) = <<RecordOf(page[2], clock)>>

----------------------------------------------------------------------------
(* The tags of a category record: C16 *)

\* an item none of whose tag elements, if it has any, has a text
EmptyTagSet(item) == \A i \in 1..Len(item.spans) : Strip(item.spans[i]) = <<>>

\* C16 as claimed: a valid item with an empty tag set has its record, with
\* the tags "No Tags"; the tags of a record are never the empty string.
C16_AsClaimed ==
    /\ \A i \in 1..Len(page) :
          (PassesFilter(page[i]) /\ EmptyTagSet(page[i])) =>
             \E j \in 1..Len(categories_data) :
                /\ categories_data[j]["Category"] = CategoryName(page[i])
                /\ categories_data[j]["Tags"] = NoTags
    /\ \A j \in 1..Len(categories_data) : categories_data[j]["Tags"] # <<>>

\* what holds of the code: a valid item has its record whatever its tags; the
\* tags are "No Tags" when the item has no tag element, and otherwise the
\* texts of its tag elements that are not blank, joined: the empty string
\* when every one of them is blank
C16_NoTagsOnlyWithoutTagElements ==
    \A i \in 1..Len(page) :
        PassesFilter(page[i]) =>
            /\ categories_data = <<RecordOf(page[i], clock)>>
            /\ page[i].spans = <<>> => categories_data[1]["Tags"] = NoTags
            /\ (page[i].spans # <<>> /\ EmptyTagSet(page[i])) =>
                  categories_data[1]["Tags"] = <<>>
            /\ ~EmptyTagSet(page[i]) =>
                  /\ categories_data[1]["Tags"] # <<>>
                  /\ categories_data[1]["Tags"] # NoTags

----------------------------------------------------------------------------
(* convert_viewers_count: C17, C18, C19 *)

\* the text without its unit, its separators and the blanks around it
Cleaned == Strip(RemoveAll(RemoveAll(viewers_text, Suffix), <<",">>))

\* a decimal number: digits with at most one point, one digit at least, a
\* sign before them or none
Numeral(t) ==
    LET u == IF t # <<>> /\ t[1] \in {"+", "-"} THEN Tail(t) ELSE t
    IN  /\ \E i \in 1..Len(u) : u[i] \in Digits
        /\ \A i \in 1..Len(u) : u[i] \in Digits \cup {"."}
        /\ Cardinality({i \in 1..Len(u) : u[i] = "."}) <= 1

\* a text a count can be read from: a numeral, thousands markers apart
Parseable == Numeral(Strip(RemoveAll(Cleaned, <<"K">>)))

\* C17 as claimed: convert_viewers_count never raises, and returns 0 on every
\* text no count can be read from.
C17_AsClaimed ==
    converted.ended =>
        /\ ~converted.raises
        /\ ~Parseable => converted.value = 0

\* what holds of the code: a text with neither the thousands marker nor a
\* point never raises, and gives 0 unless it is a string of digits; a text
\* with one of them raises unless a numeral is left when the markers are
\* taken out
C17_RaisesOnlyWithMarkerOrPoint ==
    converted.ended =>
        IF Contains(Cleaned, "K") \/ Contains(Cleaned, ".")
        THEN converted.raises <=> ~Parseable
        ELSE /\ ~converted.raises
             /\ ~IsDigit(Cleaned) => converted.value = 0

\* C18 as claimed: a value convert_viewers_count returns is never negative.
C18_AsClaimed ==
    (converted.ended /\ ~converted.raises) => converted.value >= 0

\* what holds of the code: the value returned is negative exactly when the
\* text has the thousands marker or a point and what is left without the
\* markers is a numeral with a minus sign and not zero
C18_NegativeOnlyWithMinus ==
    (converted.ended /\ ~converted.raises) =>
        (converted.value < 0 =>
            /\ Contains(Cleaned, "K") \/ Contains(Cleaned, ".")
            /\ Head(Strip(RemoveAll(Cleaned, <<"K">>))) = "-")


\* the text without the unit it may end with
Unitless ==
    IF Len(viewers_text) >= Len(Suffix)
       /\ SubSeq(viewers_text, Len(viewers_text) - Len(Suffix) + 1, Len(viewers_text)) = Suffix
    THEN SubSeq(viewers_text, 1, Len(viewers_text) - Len(Suffix))
    ELSE viewers_text

\* the digits of a non-negative integer, thousands separators among them
Grouped(t) ==
    /\ \E i \in 1..Len(t) : t[i] \in Digits
    /\ \A i \in 1..Len(t) : t[i] \in Digits \cup {","}

DigitsOf(t) == SelectSeq(t, LAMBDA c : c \in Digits)

----------------------------------------------------------------------------
(* The snapshot and the history of a dataset: C20 *)

Datasets ==
    { [snapshot |-> last_categories_CSV, history |-> CATEGORY_CSV],
      [snapshot |-> LAST_STREAMS_CSV, history |-> STREAMS_CSV] }

IsSuffixOf(s, t) == Len(s) <= Len(t) /\ SubSeq(t, Len(t) - Len(s) + 1, Len(t)) = s

\* C20: all files absent at first, at the end of every run of either pass,
\* whether it wrote records, wrote none or was ended by a failure, the rows of
\* each snapshot are the records of the last call that wrote the history of
\* its dataset, and so the last rows of that history; a dataset whose history
\* was never written has no snapshot row.
C20_SnapshotIsLastOfHistory ==
    Ended =>
        \A d \in Datasets :
            LET written == CallsTo(d.history)
            IN  /\ IsSuffixOf(DataRows(fs[d.snapshot]), DataRows(fs[d.history]))
                /\ DataRows(fs[d.history]) = RecordsOfCalls(written)
                /\ DataRows(fs[d.snapshot]) =
                      IF written = <<>> THEN <<>> ELSE written[Len(written)].records

\* C20 witness: a second run of the category pass has ended, after a first
\* that wrote other records: the snapshot holds the rows of the second, the
\* history those of both
C20_Witness ==
    /\ pc = "done" /\ clock = 2
    /\ Len(CallsTo(CATEGORY_CSV)) = 2
    /\ CallsTo(CATEGORY_CSV)[1].records # CallsTo(CATEGORY_CSV)[2].records
    /\ DataRows(fs[last_categories_CSV]) = CallsTo(CATEGORY_CSV)[2].records
    /\ Len(DataRows(fs[CATEGORY_CSV])) > Len(DataRows(fs[last_categories_CSV]))

=============================================================================
